---- MODULE Spec2Model ----
(***************************************************************************)
(* csvtojs.py: CSV of species records -> JS file assigning a JSON array.   *)
(*                                                                         *)
(* Strings are sequences of one-character strings, so that strip(),        *)
(* lower(), the `in` substring test and the JSON encoding are computed     *)
(* character by character.  A CSV file is the sequence of rows csv.reader  *)
(* yields for it (a blank line is the empty row).                          *)
(***************************************************************************)
EXTENDS Integers, Sequences, FiniteSets, TLC

\* ---------------------------------------------------------------- bounds
MaxRows == 2        \* data rows after the first row of the file
MaxRecs == 2        \* records handed to write_js in SpecJs

\* ------------------------------------------------------- string literals
S_key == <<"k","e","y">>
S_common_name == <<"c","o","m","m","o","n"," ","n","a","m","e">>
S_common == <<"c","o","m","m","o","n">>
S_scientific_name == <<"s","c","i","e","n","t","i","f","i","c"," ","n","a","m","e">>
S_scientific == <<"s","c","i","e","n","t","i","f","i","c">>
DefaultVarName == <<"w","i","n","d","o","w",".","_","_","s","p","e","c","i","e","s","R","e","c","o","r","d","s">>
CustomVarName == <<"M","Y","_","V","A","R">>
None == <<"None">>   \* Python's None: not a string of characters

\* ------------------------------------------------------ str.strip / lower
UpperChars == <<"A","B","C","D","E","F","G","H","I","J","K","L","M","N","O","P","Q","R","S","T","U","V","W","X","Y","Z">>
LowerChars == <<"a","b","c","d","e","f","g","h","i","j","k","l","m","n","o","p","q","r","s","t","u","v","w","x","y","z">>

IsSpace(c) == c \in {" ", "\t", "\n", "\r"}

SetMin(S) == CHOOSE x \in S : \A y \in S : x <= y
SetMax(S) == CHOOSE x \in S : \A y \in S : x >= y

Strip(s) ==
  LET idx == {i \in 1..Len(s) : ~IsSpace(s[i])}
  IN  IF idx = {} THEN <<>> ELSE SubSeq(s, SetMin(idx), SetMax(idx))

LowerChar(c) ==
  IF \E i \in 1..26 : UpperChars[i] = c
  THEN LowerChars[CHOOSE i \in 1..26 : UpperChars[i] = c]
  ELSE c

Lower(s) == [i \in 1..Len(s) |-> LowerChar(s[i])]

\* Python `name in k` on strings: name occurs as a contiguous substring of k
Contains(name, k) ==
  \E i \in 1..(Len(k) - Len(name) + 1) : SubSeq(k, i, i + Len(name) - 1) = name

\* Python `v or ''` for a str-or-None value
OrEmpty(v) == IF v = None \/ v = <<>> THEN <<>> ELSE v

\* ---------------------------------------------------------- infer_fields
InList(x, list) == \E i \in 1..Len(list) : list[i] = x

infer_fields(fieldnames) ==
  LET fs  == IF fieldnames = None THEN <<>> ELSE fieldnames
      low == [i \in 1..Len(fs) |-> Lower(Strip(fs[i]))]
  IN  IF InList(S_key, low) /\ InList(S_common_name, low)
      THEN "header" ELSE "fallback"

\* ------------------------------------------------- csv.DictReader row dict
\* A dict is a sequence of <<key, value>> pairs in insertion order; storing
\* under an existing key replaces the value and keeps the position.
DictPut(d, k, v) ==
  IF \E i \in 1..Len(d) : d[i][1] = k
  THEN [i \in 1..Len(d) |-> IF d[i][1] = k THEN <<k, v>> ELSE d[i]]
  ELSE Append(d, <<k, v>>)

RECURSIVE ZipInto(_, _, _, _)
ZipInto(d, fieldnames, row, i) ==
  IF i > Len(fieldnames) \/ i > Len(row) THEN d
  ELSE ZipInto(DictPut(d, fieldnames[i], row[i]), fieldnames, row, i + 1)

RECURSIVE RestvalInto(_, _, _)
RestvalInto(d, fieldnames, i) ==
  IF i > Len(fieldnames) THEN d
  ELSE RestvalInto(DictPut(d, fieldnames[i], None), fieldnames, i + 1)

\* DictReader.__next__: dict(zip(fieldnames,row)); a longer row puts its
\* surplus cells under restkey None, a shorter one fills restval None.
DictRowOf(fieldnames, row) ==
  LET d  == ZipInto(<<>>, fieldnames, row, 1)
      lf == Len(fieldnames)
      lr == Len(row)
  IN  IF lf < lr THEN DictPut(d, None, SubSeq(row, lf + 1, lr))
      ELSE IF lf > lr THEN RestvalInto(d, fieldnames, lr + 1)
      ELSE d

\* ------------------------------------------- build_records_from_dictrow
RECURSIVE LookupOf(_, _, _)
LookupOf(lk, row, i) ==
  IF i > Len(row) THEN lk
  ELSE LookupOf(DictPut(lk, Lower(Strip(row[i][1])), row[i][2]), row, i + 1)

\* g(name): exact key of lookup first, then the first key containing name
g(lookup, name) ==
  IF \E i \in 1..Len(lookup) : lookup[i][1] = name
  THEN Strip(OrEmpty(lookup[CHOOSE i \in 1..Len(lookup) : lookup[i][1] = name][2]))
  ELSE LET hits == {i \in 1..Len(lookup) : Contains(name, lookup[i][1])}
       IN  IF hits = {} THEN <<>>
           ELSE Strip(OrEmpty(lookup[SetMin(hits)][2]))

\* Python `a or b` on strings
StrOr(a, b) == IF a # <<>> THEN a ELSE b

AttributeError == "AttributeError"

\* variant: the None key is tolerated (as `(k or '').strip()` would)
DictRowRaisesMut(row) == FALSE

\* k.strip() on the None key of an over-long row raises AttributeError
DictRowRaises(row) == \E i \in 1..Len(row) : row[i][1] = None

build_records_from_dictrow(row) ==
  LET lookup == LookupOf(<<>>, row, 1)
  IN  [key        |-> g(lookup, S_key),
       common     |-> StrOr(g(lookup, S_common_name), g(lookup, S_common)),
       scientific |-> StrOr(g(lookup, S_scientific_name), g(lookup, S_scientific))]

\* ------------------------------------------- build_records_from_rowlist
build_records_from_rowlist(cols) ==
  [key        |-> Strip(OrEmpty(IF Len(cols) > 0 THEN cols[1] ELSE <<>>)),
   common     |-> Strip(OrEmpty(IF Len(cols) > 1 THEN cols[2] ELSE <<>>)),
   scientific |-> Strip(OrEmpty(IF Len(cols) > 2 THEN cols[3] ELSE <<>>))]

\* variant: a row is skipped only when all three fields are empty
SkipRecordMut(rec) == rec.key = <<>> /\ rec.common = <<>> /\ rec.scientific = <<>>

\* `if not rec['key'] and not rec['common']: continue`
SkipRecord(rec) == rec.key = <<>> /\ rec.common = <<>>

\* `if not any(cols): continue`
NotAny(cols) == \A i \in 1..Len(cols) : cols[i] = <<>>

\* ----------------------------------------------------- json.dumps / write_js
RECURSIVE Flatten(_)
Flatten(ss) == IF ss = <<>> THEN <<>> ELSE Head(ss) \o Flatten(Tail(ss))

\* variant: the backslash is emitted without being escaped
EscapeCharMut(c) ==
  CASE c = "\"" -> <<"\\", "\"">>
    [] c = "\n" -> <<"\\", "n">>
    [] c = "\r" -> <<"\\", "r">>
    [] c = "\t" -> <<"\\", "t">>
    [] OTHER    -> <<c>>

\* json.dumps string escaping with ensure_ascii=False: quote, backslash and
\* the control characters are escaped, everything else is emitted literally
EscapeChar(c) ==
  CASE c = "\"" -> <<"\\", "\"">>
    [] c = "\\" -> <<"\\", "\\">>
    [] c = "\n" -> <<"\\", "n">>
    [] c = "\r" -> <<"\\", "r">>
    [] c = "\t" -> <<"\\", "t">>
    [] OTHER    -> <<c>>

JsonString(s) ==
  <<"\"">> \o Flatten([i \in 1..Len(s) |-> EscapeChar(s[i])]) \o <<"\"">>

Spaces(n) == [i \in 1..n |-> " "]

\* newline + indentation of the pretty printer (indent=2); nothing when compact
NewlineIndent(compact, level) ==
  IF compact THEN <<>> ELSE <<"\n">> \o Spaces(2 * level)

KeySeparator(compact) == IF compact THEN <<":">> ELSE <<":", " ">>

JsonMember(name, value, compact) ==
  JsonString(name) \o KeySeparator(compact) \o JsonString(value)

JsonObject(rec, compact, level) ==
  <<"{">> \o NewlineIndent(compact, level + 1)
    \o JsonMember(S_key, rec.key, compact)
    \o <<",">> \o NewlineIndent(compact, level + 1)
    \o JsonMember(S_common, rec.common, compact)
    \o <<",">> \o NewlineIndent(compact, level + 1)
    \o JsonMember(S_scientific, rec.scientific, compact)
    \o NewlineIndent(compact, level) \o <<"}">>

RECURSIVE JsonItems(_, _, _)
JsonItems(recs, compact, i) ==
  IF i > Len(recs) THEN <<>>
  ELSE (IF i > 1 THEN <<",">> ELSE <<>>)
         \o NewlineIndent(compact, 1)
         \o JsonObject(recs[i], compact, 1)
         \o JsonItems(recs, compact, i + 1)

JsonDumps(recs, compact) ==
  IF recs = <<>> THEN <<"[", "]">>
  ELSE <<"[">> \o JsonItems(recs, compact, 1) \o NewlineIndent(compact, 0) \o <<"]">>

Assign(compact) == IF compact THEN <<"=">> ELSE <<" ", "=", " ">>

write_js(recs, varName, isCompact) ==
  varName \o Assign(isCompact) \o JsonDumps(recs, isCompact) \o <<";", "\n">>

\* ------------------------------------------------------------- the inputs
SeqsUpTo(S, n) == UNION {[1..k -> S] : k \in 0..n}

\* first rows of the file: headers in several spellings, and plain data
FirstRows ==
  { << <<"K","e","y">>, <<"C","o","m","m","o","n"," ","N","a","m","e">>,
       <<"S","c","i","e","n","t","i","f","i","c"," ","N","a","m","e">> >>,
    << <<"K","E","Y">>, <<"c","o","m","m","o","n"," ","n","a","m","e">>,
       <<"S","c","i","e","n","t","i","f","i","c"," ","N","A","M","E">> >>,
    << <<" ","K","E","Y"," ">>, <<"c","o","m","m","o","n"," ","n","a","m","e">>,
       <<"S","C","I","E","N","T","I","F","I","C"," ","N","A","M","E"," ">> >>,
    << <<"K","e","y">>, <<"C","o","m","m","o","n">>,
       <<"C","o","m","m","o","n"," ","N","a","m","e">> >>,
    << <<"K","e","y">>, <<"C","o","m","m","o","n"," ","A","l","t">>,
       <<"C","o","m","m","o","n"," ","N","a","m","e">> >>,
    << <<"C","o","m","m","o","n">>, <<"K","e","y">>, <<"S","c","i">> >>,
    << <<"M","o","n","k","e","y">>, <<"C","o","m","m","o","n"," ","L","o","o","n">>,
       <<"G","a","v","i","a">> >>,
    << <<"K","e","y">>, <<"k","e","y"," ">>,
       <<"C","o","m","m","o","n"," ","N","a","m","e">> >>,
    << <<"K","e","y">>, <<"C","o","m","m","o","n"," ","N","a","m","e">> >>,
    << <<"a">>, <<"b">>, <<"c">> >>,
    << >> }

\* data rows: blank line, padded, empty key and common, all blank cells,
\* short, empty last cell, long
DataRows ==
  { << >>,
    << <<" ","a"," ">>, <<"b">>, <<"c"," ">> >>,
    << <<>>, <<>>, <<"c">> >>,
    << <<" ">>, <<>>, <<>> >>,
    << <<>>, <<"b">> >>,
    << <<"a">>, <<"b">>, <<>> >>,
    << <<"a">>, <<>>, <<>>, <<"d">> >> }

Rows == {<<>>} \cup {<<f>> \o d : f \in FirstRows, d \in SeqsUpTo(DataRows, MaxRows)}

\* the input path: missing, not decodable as UTF-8, or a file of rows
CsvFiles ==
  {[exists |-> FALSE, decodable |-> TRUE, rows |-> <<>>],
   [exists |-> TRUE, decodable |-> FALSE, rows |-> <<>>]}
  \cup {[exists |-> TRUE, decodable |-> TRUE, rows |-> r] : r \in Rows}

VarNames == {DefaultVarName, CustomVarName}

NoFile == <<"NoFile">>
OldText == <<"o","l","d","\n">>

\* ---------------------------------------------------------------- state
VARIABLES
  csvfile,      \* args.csvfile: the input path and what is stored there
  compact,      \* args.compact
  var_name,     \* args.var_name
  outfile,      \* content of args.out, NoFile when it does not exist
  pc,           \* position in main / convert_csv_to_records
  has_header,   \* convert_csv_to_records: has_header
  fieldnames,   \* reader.fieldnames of the DictReader
  header_mode,  \* result of infer_fields
  reader2,      \* TRUE once the plain csv.reader has been created
  line,         \* rows consumed by the reader in use
  records,      \* convert_csv_to_records: records / main: records
  raised,       \* exception propagating out of convert_csv_to_records
  stderr,       \* messages printed to standard error
  stdout,       \* messages printed to standard output
  exitCode,     \* process exit status, -1 while running
  writes        \* number of write_js calls

vars == <<csvfile, compact, var_name, outfile, pc, has_header, fieldnames,
          header_mode, reader2, line, records, raised, stderr, stdout,
          exitCode, writes>>

convVars == <<has_header, fieldnames, header_mode, reader2, line, records>>
ioVars == <<outfile, stderr, stdout, exitCode, writes>>
argVars == <<csvfile, compact, var_name>>

Init ==
  /\ csvfile \in CsvFiles
  /\ compact \in BOOLEAN
  /\ var_name \in VarNames
  /\ outfile \in {NoFile, OldText}
  /\ pc = "main"
  /\ has_header = FALSE
  /\ fieldnames = None
  /\ header_mode = "none"
  /\ reader2 = FALSE
  /\ line = 0
  /\ records = <<>>
  /\ raised = "none"
  /\ stderr = <<>>
  /\ stdout = <<>>
  /\ exitCode = -1
  /\ writes = 0

\* --------------------------------------------- convert_csv_to_records
\* main calls convert_csv_to_records(args.csvfile)
MainCallConvert ==
  /\ pc = "main"
  /\ pc' = "convert"
  /\ UNCHANGED <<argVars, convVars, ioVars, raised>>

\* `if not path.exists(): raise FileNotFoundError(path)`
ConvertNotFound ==
  /\ pc = "convert"
  /\ ~csvfile.exists
  /\ raised' = "FileNotFoundError"
  /\ pc' = "except"
  /\ UNCHANGED <<argVars, convVars, ioVars>>

\* open the file and read the sample; bytes that are not UTF-8 raise
ConvertOpen ==
  /\ pc = "convert"
  /\ csvfile.exists
  /\ IF csvfile.decodable
     THEN /\ pc' = "sniff"
          /\ UNCHANGED raised
     ELSE /\ pc' = "except"
          /\ raised' = "UnicodeDecodeError"
  /\ UNCHANGED <<argVars, convVars, ioVars>>

\* csv.Sniffer().has_header(sample): a heuristic of the csv library, so any
\* verdict; an exception inside it counts as a header.  records = [].
SnifferOutcomes == {"True", "False", "Exception"}

Sniff ==
  /\ pc = "sniff"
  /\ \E verdict \in SnifferOutcomes : has_header' = (verdict # "False")
  /\ records' = <<>>
  /\ pc' = "sniffed"
  /\ UNCHANGED <<argVars, fieldnames, header_mode, reader2, line, ioVars, raised>>

\* `if has_header:` ... else straight to the plain row parsing
IfHasHeader ==
  /\ pc = "sniffed"
  /\ IF has_header
     THEN pc' = "dictreader" /\ UNCHANGED <<reader2, line>>
     ELSE pc' = "rowparse" /\ reader2' = TRUE /\ line' = 0
  /\ UNCHANGED <<argVars, has_header, fieldnames, header_mode, records, ioVars, raised>>

\* reader = csv.DictReader(fh); header_mode = infer_fields(reader.fieldnames)
\* fieldnames is the first row the csv reader yields (a blank first line gives
\* the empty list), None for an empty file
DictReaderFieldnames ==
  /\ pc = "dictreader"
  /\ fieldnames' = IF csvfile.rows = <<>> THEN None ELSE csvfile.rows[1]
  /\ line' = IF csvfile.rows = <<>> THEN 0 ELSE 1
  /\ header_mode' = infer_fields(fieldnames')
  /\ pc' = "dictrows"
  /\ UNCHANGED <<argVars, has_header, reader2, records, ioVars, raised>>

\* one iteration of `for row in reader:` (blank rows are skipped by the reader)
DictReaderRow ==
  /\ pc = "dictrows"
  /\ line < Len(csvfile.rows)
  /\ line' = line + 1
  /\ LET cells == csvfile.rows[line + 1]
         row   == DictRowOf(fieldnames, cells)
     IN  IF cells = <<>>
         THEN UNCHANGED <<records, raised, pc>>
         ELSE IF DictRowRaises(row)
         THEN /\ raised' = AttributeError
              /\ pc' = "except"
              /\ UNCHANGED records
         ELSE /\ records' = IF SkipRecord(build_records_from_dictrow(row))
                            THEN records
                            ELSE Append(records, build_records_from_dictrow(row))
              /\ UNCHANGED <<raised, pc>>
  /\ UNCHANGED <<argVars, has_header, fieldnames, header_mode, reader2, ioVars>>

\* variant: the fh.seek(0) before the plain row parsing is missing, so the
\* second reader starts where the DictReader stopped
DictReaderDoneMut ==
  /\ pc = "dictrows"
  /\ line = Len(csvfile.rows)
  /\ IF records # <<>>
     THEN pc' = "return" /\ UNCHANGED <<reader2, line>>
     ELSE pc' = "rowparse" /\ reader2' = TRUE /\ UNCHANGED line
  /\ UNCHANGED <<argVars, has_header, fieldnames, header_mode, records, ioVars, raised>>

\* after the loop: `if records: return records`, else fh.seek(0) and fall
\* through to the plain row parsing
DictReaderDone ==
  /\ pc = "dictrows"
  /\ line = Len(csvfile.rows)
  /\ IF records # <<>>
     THEN pc' = "return" /\ UNCHANGED <<reader2, line>>
     ELSE pc' = "rowparse" /\ reader2' = TRUE /\ line' = 0
  /\ UNCHANGED <<argVars, has_header, fieldnames, header_mode, records, ioVars, raised>>

StripAll(cols) == [i \in 1..Len(cols) |-> Strip(cols[i])]

\* one iteration of `for cols in reader2:`
RowParse ==
  /\ pc = "rowparse"
  /\ line < Len(csvfile.rows)
  /\ line' = line + 1
  /\ LET cols == StripAll(csvfile.rows[line + 1])
         rec  == build_records_from_rowlist(cols)
     IN  records' = IF NotAny(cols) \/ SkipRecord(rec)
                    THEN records ELSE Append(records, rec)
  /\ UNCHANGED <<argVars, has_header, fieldnames, header_mode, reader2, ioVars, raised, pc>>

\* `return records` after the plain row parsing
RowParseDone ==
  /\ pc = "rowparse"
  /\ line = Len(csvfile.rows)
  /\ pc' = "return"
  /\ UNCHANGED <<argVars, convVars, ioVars, raised>>

\* ------------------------------------------------------------------ main
\* variant: the handler prints the message but does not exit
MainExceptMut ==
  /\ pc = "except"
  /\ stderr' = Append(stderr, IF raised = "FileNotFoundError"
                              THEN "Error: file not found"
                              ELSE "Error reading CSV")
  /\ pc' = "return"
  /\ UNCHANGED <<argVars, convVars, outfile, stdout, exitCode, writes, raised>>

\* except FileNotFoundError / except Exception: message, sys.exit(2)
MainExcept ==
  /\ pc = "except"
  /\ stderr' = Append(stderr, IF raised = "FileNotFoundError"
                              THEN "Error: file not found"
                              ELSE "Error reading CSV")
  /\ exitCode' = 2
  /\ pc' = "exit"
  /\ UNCHANGED <<argVars, convVars, outfile, stdout, writes, raised>>

\* variant: an empty result is treated as an error
MainCheckRecordsMut ==
  /\ pc = "return"
  /\ IF records = <<>>
     THEN /\ stderr' = Append(stderr, "Error: no records")
          /\ exitCode' = 1
          /\ pc' = "exit"
     ELSE /\ pc' = "write"
          /\ UNCHANGED <<stderr, exitCode>>
  /\ UNCHANGED <<argVars, convVars, outfile, stdout, writes, raised>>

\* `if not records:` warning on standard error
MainCheckRecords ==
  /\ pc = "return"
  /\ stderr' = IF records = <<>> THEN Append(stderr, "Warning: no records")
               ELSE stderr
  /\ pc' = "write"
  /\ UNCHANGED <<argVars, convVars, outfile, stdout, exitCode, writes, raised>>

\* out = write_js(records, args.out, ...); print; normal exit
MainWriteJs ==
  /\ pc = "write"
  /\ outfile' = write_js(records, var_name, compact)
  /\ writes' = writes + 1
  /\ stdout' = Append(stdout, <<"Wrote", Len(records)>>)
  /\ exitCode' = 0
  /\ pc' = "exit"
  /\ UNCHANGED <<argVars, convVars, stderr, raised>>

Next ==
  \/ MainCallConvert
  \/ ConvertNotFound
  \/ ConvertOpen
  \/ Sniff
  \/ IfHasHeader
  \/ DictReaderFieldnames
  \/ DictReaderRow
  \/ DictReaderDone
  \/ RowParse
  \/ RowParseDone
  \/ MainExcept
  \/ MainCheckRecords
  \/ MainWriteJs

Spec == Init /\ [][Next]_vars

\* ------------------------------------------------ write_js on its own
\* record sequences with the characters json.dumps has to escape
JsRecords ==
  [key        : {<<"a">>, <<"\"", ",", "\"">>, <<"\\">>},
   common     : {<<>>, <<"x", "\n", "}">>, <<"\\", "n">>},
   scientific : {<<"b", " ", "c">>, <<"]", ";", "\t">>}]

InitJs ==
  /\ csvfile = [exists |-> TRUE, decodable |-> TRUE, rows |-> <<>>]
  /\ compact \in BOOLEAN
  /\ var_name \in VarNames
  /\ outfile \in {NoFile, OldText}
  /\ pc = "write"
  /\ has_header = FALSE
  /\ fieldnames = None
  /\ header_mode = "none"
  /\ reader2 = TRUE
  /\ line = 0
  /\ records \in SeqsUpTo(JsRecords, MaxRecs)
  /\ raised = "none"
  /\ stderr = <<>>
  /\ stdout = <<>>
  /\ exitCode = -1
  /\ writes = 0

NextJs == MainWriteJs

SpecJs == InitJs /\ [][NextJs]_vars

\* ======================================================================
\* Reference definitions used by the properties
\* ======================================================================
rows == csvfile.rows

\* trimmed value of cell i of a row, empty when the row has no such cell
Trimmed(row, i) == IF i <= Len(row) THEN Strip(row[i]) ELSE <<>>

FirstThree(row) ==
  [key |-> Trimmed(row, 1), common |-> Trimmed(row, 2), scientific |-> Trimmed(row, 3)]

HasKeyOrCommon(rec) == rec.key # <<>> \/ rec.common # <<>>

\* records of the rows from..Len(rs), built from their first three cells
PositionalFrom(rs, from) ==
  SelectSeq([i \in 1..(Len(rs) - from + 1) |-> FirstThree(rs[i + from - 1])],
            HasKeyOrCommon)

\* records of the header-keyed pass over a file none of whose rows raises
HeaderKeyed(rs) ==
  SelectSeq([i \in 1..(Len(rs) - 1) |->
               build_records_from_dictrow(DictRowOf(rs[1], rs[i + 1]))],
            HasKeyOrCommon)

NormalisedAt(row, c) == Lower(Strip(row[c]))
HasHeaderNamed(row, name) == \E c \in 1..Len(row) : NormalisedAt(row, c) = name

\* first row is exactly Key, Common Name, Scientific Name in any letter case
IsExactHeader(row) ==
  /\ Len(row) = 3
  /\ Lower(row[1]) = S_key
  /\ Lower(row[2]) = S_common_name
  /\ Lower(row[3]) = S_scientific_name

LongRow(rs) == \E i \in 2..Len(rs) : Len(rs[i]) > Len(rs[1])

\* ---------------------------------------------------------------- C1
\* C1: for a file whose first row is the header Key, Common Name, Scientific
\* Name (any case), whatever the sniffer said, the returned records are the
\* trimmed first three cells of the data rows (rows with empty key and common
\* dropped), in row order, and the header row is not among them.
C1_HeaderFileRecords ==
  (pc = "return" /\ rows # <<>> /\ IsExactHeader(rows[1]))
    => records = PositionalFrom(rows, 2)

\* ---------------------------------------------------------------- C2
\* C2: for a file whose first row lacks a `key` or a `common name` header and
\* whose rows all have at least three cells, whatever the sniffer said, the
\* conversion returns the trimmed first three cells of every row, first row
\* included, in row order.
C2_PositionalFileRecords ==
  (/\ pc = "return"
   /\ rows # <<>>
   /\ \A i \in 1..Len(rows) : Len(rows[i]) >= 3
   /\ ~(HasHeaderNamed(rows[1], S_key) /\ HasHeaderNamed(rows[1], S_common_name)))
    => records = PositionalFrom(rows, 1)

\* ---------------------------------------------------------------- C3
\* C3: every record collected by convert_csv_to_records, on any parse path,
\* has a non-empty key or a non-empty common.
C3_NoEmptyRecords ==
  \A i \in 1..Len(records) : records[i].key # <<>> \/ records[i].common # <<>>

\* a header-keyed result from a file holding a row with only a scientific value
C3_Witness ==
  /\ pc = "return"
  /\ has_header /\ ~reader2
  /\ records # <<>>
  /\ \E i \in 2..Len(rows) :
       /\ Len(rows[i]) = 3
       /\ Trimmed(rows[i], 1) = <<>> /\ Trimmed(rows[i], 2) = <<>>
       /\ Trimmed(rows[i], 3) # <<>>

\* ---------------------------------------------------------------- C4
\* C4: when the input is missing or parsing raised, the process exits with
\* code 2 without having called write_js, and the output file changes only in
\* the write_js step that follows a successful conversion.
C4_NoWriteOnError ==
  /\ []((pc = "exit" /\ (~csvfile.exists \/ raised # "none"))
          => (exitCode = 2 /\ writes = 0))
  /\ []((~csvfile.exists \/ ~csvfile.decodable) => pc \notin {"return", "write"})
  /\ [][(outfile' # outfile \/ writes' # writes)
          => (pc = "write" /\ raised = "none" /\ csvfile.exists)]_vars

\* parsing raised on an existing file and the old output is still in place
C4_Witness ==
  /\ pc = "exit"
  /\ raised = AttributeError
  /\ exitCode = 2
  /\ outfile = OldText

\* ---------------------------------------------------------------- C5
\* C5: a successful parse with zero records ends with exit code 0, one warning
\* on standard error, exactly one write_js call, and an output file holding
\* `<var> = [];\n` (`<var>=[];\n` when compact).
C5_EmptyResult ==
  (pc = "exit" /\ raised = "none" /\ records = <<>>)
    => /\ exitCode = 0
       /\ writes = 1
       /\ stderr = <<"Warning: no records">>
       /\ outfile = var_name \o (IF compact
                                 THEN <<"=", "[", "]", ";", "\n">>
                                 ELSE <<" ", "=", " ", "[", "]", ";", "\n">>)

\* the empty input file, default variable name, pretty mode
C5_Witness ==
  /\ pc = "exit"
  /\ csvfile.exists /\ csvfile.decodable /\ rows = <<>>
  /\ var_name = DefaultVarName /\ ~compact
  /\ exitCode = 0
  /\ outfile = DefaultVarName \o <<" ", "=", " ", "[", "]", ";", "\n">>

\* ---------------------------------------------------------------- C6
\* A JSON reader for arrays of objects with string members.  Every result is
\* [ok, val, next]: whether the text parsed, the value, the index after it.
JsonFail == [ok |-> FALSE, val |-> <<>>, next |-> 0]

RECURSIVE SkipWs(_, _)
SkipWs(s, i) == IF i <= Len(s) /\ IsSpace(s[i]) THEN SkipWs(s, i + 1) ELSE i

CharAt(s, i, c) == i <= Len(s) /\ s[i] = c

Unescape(c) ==
  CASE c = "n" -> "\n" [] c = "r" -> "\r" [] c = "t" -> "\t" [] OTHER -> c

RECURSIVE StringBody(_, _, _)
StringBody(s, i, acc) ==
  IF i > Len(s) THEN JsonFail
  ELSE IF s[i] = "\"" THEN [ok |-> TRUE, val |-> acc, next |-> i + 1]
  ELSE IF s[i] = "\\"
       THEN IF i + 1 <= Len(s) /\ s[i + 1] \in {"\"", "\\", "/", "n", "r", "t"}
            THEN StringBody(s, i + 2, Append(acc, Unescape(s[i + 1])))
            ELSE JsonFail
  ELSE IF s[i] \in {"\n", "\r", "\t"} THEN JsonFail
  ELSE StringBody(s, i + 1, Append(acc, s[i]))

ParseString(s, i) == IF CharAt(s, i, "\"") THEN StringBody(s, i + 1, <<>>) ELSE JsonFail

RECURSIVE ParseMembers(_, _, _)
ParseMembers(s, i, acc) ==
  LET k == ParseString(s, i)
      c == SkipWs(s, k.next)
      v == ParseString(s, SkipWs(s, c + 1))
      e == SkipWs(s, v.next)
  IN  IF ~k.ok \/ ~CharAt(s, c, ":") \/ ~v.ok THEN JsonFail
      ELSE IF CharAt(s, e, ",")
           THEN ParseMembers(s, SkipWs(s, e + 1), Append(acc, <<k.val, v.val>>))
      ELSE IF CharAt(s, e, "}")
           THEN [ok |-> TRUE, val |-> Append(acc, <<k.val, v.val>>), next |-> e + 1]
      ELSE JsonFail

ParseObject(s, i) ==
  IF ~CharAt(s, i, "{") THEN JsonFail
  ELSE IF CharAt(s, SkipWs(s, i + 1), "}")
       THEN [ok |-> TRUE, val |-> <<>>, next |-> SkipWs(s, i + 1) + 1]
  ELSE ParseMembers(s, SkipWs(s, i + 1), <<>>)

RECURSIVE ParseElements(_, _, _)
ParseElements(s, i, acc) ==
  LET o == ParseObject(s, i)
      e == SkipWs(s, o.next)
  IN  IF ~o.ok THEN JsonFail
      ELSE IF CharAt(s, e, ",")
           THEN ParseElements(s, SkipWs(s, e + 1), Append(acc, o.val))
      ELSE IF CharAt(s, e, "]")
           THEN [ok |-> TRUE, val |-> Append(acc, o.val), next |-> e + 1]
      ELSE JsonFail

ParseArray(s, i) ==
  IF ~CharAt(s, i, "[") THEN JsonFail
  ELSE IF CharAt(s, SkipWs(s, i + 1), "]")
       THEN [ok |-> TRUE, val |-> <<>>, next |-> SkipWs(s, i + 1) + 1]
  ELSE ParseElements(s, SkipWs(s, i + 1), <<>>)

\* the whole text must be one array
JsonLoads(s) ==
  LET a == ParseArray(s, SkipWs(s, 1))
  IN  IF a.ok /\ SkipWs(s, a.next) = Len(s) + 1 THEN a ELSE JsonFail

\* the text between `<var> = ` (`<var>=` when compact) and the final `;\n`
Unwrap(text, varName, isCompact) ==
  LET prefix == varName \o (IF isCompact THEN <<"=">> ELSE <<" ", "=", " ">>)
      n      == Len(text)
  IN  IF /\ n >= Len(prefix) + 2
         /\ SubSeq(text, 1, Len(prefix)) = prefix
         /\ SubSeq(text, n - 1, n) = <<";", "\n">>
      THEN SubSeq(text, Len(prefix) + 1, n - 2)
      ELSE <<>>

\* a record as the member list of its JSON object
AsMembers(rec) ==
  << <<S_key, rec.key>>, <<S_common, rec.common>>, <<S_scientific, rec.scientific>> >>

Decoded(text, varName, isCompact) == JsonLoads(Unwrap(text, varName, isCompact))

\* C6: the text write_js wrote, stripped of the assignment prefix and the
\* trailing `;\n`, parses as JSON to exactly the serialized records, in order,
\* in both modes; so the compact and the pretty text decode to the same value.
C6_RoundTrip ==
  (pc = "exit" /\ writes = 1)
    => /\ Decoded(outfile, var_name, compact).ok
       /\ Decoded(outfile, var_name, compact).val
            = [i \in 1..Len(records) |-> AsMembers(records[i])]
       /\ Decoded(write_js(records, var_name, ~compact), var_name, ~compact).ok
       /\ Decoded(write_js(records, var_name, ~compact), var_name, ~compact).val
            = Decoded(outfile, var_name, compact).val

\* two records were written, with a backslash and a newline among the values
C6_Witness ==
  /\ pc = "exit" /\ writes = 1
  /\ Len(records) = 2
  /\ records[1].key = <<"\\">>
  /\ records[2].common = <<"x", "\n", "}">>
  /\ compact

\* ---------------------------------------------------------------- C7
\* C7: when the sniffer reported a header and the header-keyed pass produced
\* records, those are the result and the plain reader is never created; when
\* it produced none, the result is that of the plain row parsing of the whole
\* file, first row included, as when the sniffer reported no header.
C7_Recovery ==
  /\ (pc = "return" /\ has_header)
       => IF HeaderKeyed(rows) # <<>>
          THEN records = HeaderKeyed(rows) /\ ~reader2
          ELSE records = PositionalFrom(rows, 1) /\ reader2
  /\ (pc = "return" /\ ~has_header)
       => records = PositionalFrom(rows, 1) /\ reader2

\* a header was reported, the header-keyed pass found nothing, and the plain
\* row parsing produced records from the first row on
C7_Witness ==
  /\ pc = "return"
  /\ has_header /\ reader2
  /\ Len(rows) >= 2
  /\ Len(records) >= 2
  /\ records[1] = FirstThree(rows[1])

\* ---------------------------------------------------------------- C8
\* C8: when the first row lacks a header named `key` or one named
\* `common name`, infer_fields reports fallback and the returned records are
\* the first three cells of every row; a header-keyed result is returned only
\* when both headers are present.
C8_DecisionByHeaders ==
  (pc = "return" /\ rows # <<>>)
    => /\ ~(HasHeaderNamed(rows[1], S_key) /\ HasHeaderNamed(rows[1], S_common_name))
            => /\ has_header => header_mode = "fallback"
               /\ records = PositionalFrom(rows, 1)
       /\ (has_header /\ ~reader2)
            => (HasHeaderNamed(rows[1], S_key) /\ HasHeaderNamed(rows[1], S_common_name))

\* ---------------------------------------------------------------- C9
\* C9: when the header row has a column named `common name` (trimmed, any
\* case), the common of a record built from a header-keyed row with a cell
\* for every column is the trimmed value of such a column, whatever that
\* value is; likewise scientific with `scientific name`.
C9_ExactMatchFirst ==
  [][(pc = "dictrows" /\ Len(records') > Len(records)
        /\ Len(rows[line']) = Len(fieldnames))
       => LET rec   == records'[Len(records')]
              cells == rows[line']
          IN  /\ HasHeaderNamed(fieldnames, S_common_name)
                   => \E c \in 1..Len(fieldnames) :
                        /\ NormalisedAt(fieldnames, c) = S_common_name
                        /\ rec.common = Trimmed(cells, c)
              /\ HasHeaderNamed(fieldnames, S_scientific_name)
                   => \E c \in 1..Len(fieldnames) :
                        /\ NormalisedAt(fieldnames, c) = S_scientific_name
                        /\ rec.scientific = Trimmed(cells, c)]_vars

\* ---------------------------------------------------------------- C10
\* C10: with a header reported, a data row longer than the first row aborts
\* the conversion: exit code 2, no write_js call, no plain row parsing.  With
\* no header reported the same file converts, each record taking the first
\* three cells of its row.
C10_LongRow ==
  (pc = "exit" /\ csvfile.exists /\ csvfile.decodable /\ LongRow(rows))
    => IF has_header
       THEN /\ raised = AttributeError
            /\ exitCode = 2
            /\ writes = 0
            /\ ~reader2
            /\ outfile \in {NoFile, OldText}
       ELSE /\ raised = "none"
            /\ exitCode = 0
            /\ records = PositionalFrom(rows, 1)

\* a three-column header, a four-cell data row, and the run ended with 2
C10_Witness ==
  /\ pc = "exit"
  /\ has_header
  /\ Len(rows) >= 2 /\ Len(rows[1]) = 3
  /\ \E i \in 2..Len(rows) : Len(rows[i]) = 4
  /\ exitCode = 2

====
